---- MODULE Spec2Model ----
(***************************************************************************)
(* Model of the OpenGL presentation loop of                                *)
(* src/video_core/renderer_opengl/renderer_opengl.cpp.                     *)
(*                                                                         *)
(* The presentation thread runs RendererOpenGL::SwapBuffers once per       *)
(* frame.  pc is its position in SwapBuffers; the statements between two   *)
(* positions form one action.  The GPU/LCD registers are external: the     *)
(* fields the loop reads are drawn from bounded sets at the place the code *)
(* reads them.  The variables marked "history" record the calls the code   *)
(* made and change nothing it does.                                        *)
(***************************************************************************)
EXTENDS Integers, Sequences, FiniteSets, TLC

\* ------------------------------------------------------------------ bounds
MaxWidth == 4
MaxHeight == 2
NumUnsupported == 1
MaxStrideWords == 4
MaxFrames == 2
MaxGLErrors == 1
MaxSurface == 2
MaxWrites == 1
RaceFrames == 1

\* --------------------------------------------------------- GL constants
\* glBindTexture(GL_TEXTURE_2D, 0): no texture bound
GL_NO_TEXTURE == 0
\* glPixelStorei(GL_UNPACK_ROW_LENGTH, 0): the default row length
GL_DEFAULT_ROW_LENGTH == 0
\* "rows to have a memory alignement of 4"
GL_UNPACK_ALIGNMENT == 4
\* the extent of the solid colour texture
COLOR_FILL_SIZE == 1

VARIABLES
    pc,               \* position of the presentation thread in SwapBuffers
    i,                \* the loop variable of SwapBuffers: the screen being updated
    framebuffer,      \* GPU::g_regs.framebuffer_config[i] as bound at line 83
    textures,         \* RendererOpenGL::textures
    gl,               \* the GL context: bound texture, unpack row length, storage
    m_current_frame,  \* the frame counter
    fatal,            \* the fatal path taken, if any
    steps,            \* history: the steps of the current SwapBuffers call
    upd,              \* history: the current (or last) screen update and its calls
    gl_log,           \* history: GL errors raised and logged by the last step
    last_update,      \* history: what the last completed update of each screen observed
    presented,        \* history: the number of SwapBuffers calls that returned
    ortho_matrix,     \* history: the layout and projection matrix of the last step
    writes            \* history: the register writes of the emulation core so far

vars == <<pc, i, framebuffer, textures, gl, m_current_frame, fatal, steps, upd, gl_log,
          last_update, presented, ortho_matrix, writes>>

\* ------------------------------------------------------------ pixel formats
SupportedFormats == {"RGBA8", "RGB8", "RGB565", "RGB5A1", "RGBA4"}

\* format codes the 3-bit register field can hold beyond the five listed ones
UnlistedCodes == <<"PixelFormat(5)", "PixelFormat(6)", "PixelFormat(7)">>

UnsupportedFormats == {UnlistedCodes[k] : k \in 1..NumUnsupported}

PixelFormats == SupportedFormats \cup UnsupportedFormats

\* GPU::Regs::BytesPerPixel
BytesPerPixel(format) ==
    CASE format = "RGBA8" -> 4
      [] format = "RGB8" -> 3
      [] format \in {"RGB565", "RGB5A1", "RGBA4"} -> 2
      [] OTHER -> 0

\* the switch of ConfigureFramebufferTexture: internal_format
InternalFormat(format) ==
    CASE format = "RGBA8" -> "GL_RGBA"
      [] format = "RGB8" -> "GL_RGB"
      [] format = "RGB565" -> "GL_RGB"
      [] format = "RGB5A1" -> "GL_RGBA"
      [] format = "RGBA4" -> "GL_RGBA"
      [] OTHER -> "indeterminate"

\* the switch of ConfigureFramebufferTexture: texture.gl_format
GLFormat(format) ==
    CASE format = "RGBA8" -> "GL_RGBA"
      [] format = "RGB8" -> "GL_BGR"
      [] format = "RGB565" -> "GL_RGB"
      [] format = "RGB5A1" -> "GL_RGBA"
      [] format = "RGBA4" -> "GL_RGBA"
      [] OTHER -> "indeterminate"

\* the switch of ConfigureFramebufferTexture: texture.gl_type
GLType(format) ==
    CASE format = "RGBA8" -> "GL_UNSIGNED_INT_8_8_8_8"
      [] format = "RGB8" -> "GL_UNSIGNED_BYTE"
      [] format = "RGB565" -> "GL_UNSIGNED_SHORT_5_6_5"
      [] format = "RGB5A1" -> "GL_UNSIGNED_SHORT_5_5_5_1"
      [] format = "RGBA4" -> "GL_UNSIGNED_SHORT_4_4_4_4"
      [] OTHER -> "indeterminate"

\* the default: label of the switch is reached
IsUnimplemented(format) == format \notin SupportedFormats

\* ------------------------------------------------------------------ inputs
Screens == {0, 1}

\* framebuffer sizes: one pair differs in width alone, one in height alone
FramebufferSizes == {<<1, 1>>, <<MaxWidth, 1>>, <<MaxWidth, MaxHeight>>}

\* width, height and color_format of a FramebufferConfig register block
FramebufferConfigs ==
    {[width |-> size[1], height |-> size[2], color_format |-> format] :
        size \in FramebufferSizes, format \in PixelFormats}

\* a register block the code holds a reference to and never reads: its size is
\* drawn, its format is of no account
UnreadConfigs ==
    {[width |-> size[1], height |-> size[2], color_format |-> ""] : size \in FramebufferSizes}

\* the loop variable's reference outside the loop body
Unbound == [width |-> 0, height |-> 0, color_format |-> ""]

\* byte strides: whole 4-byte words, one that is no multiple of 4, and the two
\* strides of the documented example
Strides == {4 * k : k \in 2..MaxStrideWords} \cup {18, 1600, 1602}

ColorValues == {0, 255}

\* --------------------------------------------------------- history records
NoArgs == [width |-> 0, height |-> 0, internal |-> "", format |-> "",
           type |-> "", data |-> "", pixel |-> <<>>, row_length |-> 0, stride |-> 0,
           active_fb |-> 0]

\* one call to the backend or to a collaborator
Call(name, target, args) == [call |-> name, target |-> target, args |-> args]

\* differed: the stored (width, height, format) was not the observed one when the
\* update began; repeat: the update before it on this screen observed the same
\* (width, height, format), color fill off both times
NoUpdate ==
    [screen |-> 2, fill |-> FALSE, observed |-> <<0, 0, "">>, differed |-> FALSE,
     repeat |-> FALSE, color |-> <<>>, calls |-> <<>>, complete |-> FALSE]

NoLog == [raised |-> 0, logged |-> 0]

Dims(t) == <<t.width, t.height, t.format>>

Observed(fb) == <<fb.width, fb.height, fb.color_format>>

\* the calls named c among calls
CallsNamed(calls, c) == SelectSeq(calls, LAMBDA x : x.call = c)

\* the place of the first call named c, 0 when there is none
Position(calls, c) ==
    IF \E k \in 1..Len(calls) : calls[k].call = c
    THEN CHOOSE k \in 1..Len(calls) :
            calls[k].call = c /\ \A j \in 1..(k - 1) : calls[j].call # c
    ELSE 0

\* glTexImage2D calls that allocate storage without pixels
Allocations(calls) ==
    SelectSeq(calls, LAMBDA x : x.call = "glTexImage2D" /\ x.args.data = "nullptr")

IsPrefix(p, q) == Len(p) <= Len(q) /\ \A k \in 1..Len(p) : p[k] = q[k]

NoObservation == [fill |-> FALSE, observed |-> <<0, 0, "">>]

FillObservation == [fill |-> TRUE, observed |-> <<0, 0, "">>]

Min(a, b) == IF a < b THEN a ELSE b

\* how many of the k GL calls of a step report an error
ErrorCounts(k) == 0..Min(k, MaxGLErrors)

\* ------------------------------------------------------------ fatal paths
\* UNIMPLEMENTED(), UNREACHABLE() and a failed ASSERT(): the process stops
Fatal == "Crashed"

\* ------------------------------------------------------------ GL_DEBUG
\* printOglError: 1 and a logged line when glGetError reports an error, else 0
printOglError(glErr) == IF glErr # "GL_NO_ERROR" THEN 1 ELSE 0

\* the lines logged by the GL_DEBUG() after each of k calls, n of which failed
Logged(k, n) ==
    n * printOglError("GL_INVALID_OPERATION") + (k - n) * printOglError("GL_NO_ERROR")

\* mutant: a reported GL error stops the process
AfterGLDebugAbort(n, next) == IF n > 0 THEN Fatal ELSE next

\* GL_DEBUG() discards printOglError's result: the caller goes on to `next`
AfterGLDebug(n, next) == next

LogOf(k, n) == [raised |-> n, logged |-> Logged(k, n)]

\* ------------------------------------------------------------- textures
\* mutant: both screens are given the same texture name
TextureHandleShared(s) == 1

\* glGenTextures: the name of the texture of screen s
TextureHandle(s) == s + 1

NoStorage == [width |-> 0, height |-> 0, internal |-> "none"]

\* TextureInfo fields the constructor and InitOpenGLObjects never assign hold
\* whatever the allocation left there: zeroed memory, or stale values that may
\* coincide with a framebuffer configuration
UninitializedFields ==
    { [width |-> 0, height |-> 0, format |-> "RGBA8",
       gl_format |-> "indeterminate", gl_type |-> "indeterminate"],
      [width |-> MaxWidth, height |-> MaxHeight, format |-> "RGB565",
       gl_format |-> "indeterminate", gl_type |-> "indeterminate"] }

TextureInfo(handle, u) ==
    [handle |-> handle, width |-> u.width, height |-> u.height, format |-> u.format,
     gl_format |-> u.gl_format, gl_type |-> u.gl_type]

\* -------------------------------------------------------------- SwapBuffers
\* mutant: the loop runs for the top screen only
LoopNextTopOnly(s) == [pc |-> "DrawScreens", i |-> 1]

\* for (int i : {0, 1}): where the loop goes after the body for screen s
LoopNext(s) ==
    IF s = 0 THEN [pc |-> "ScreenUpdate", i |-> 1] ELSE [pc |-> "DrawScreens", i |-> 1]

\* line 86: the color fill register of screen s
ColorFillRegister(s) == IF s = 0 THEN "color_fill_top" ELSE "color_fill_bottom"

\* line 83: the framebuffer register block of screen s
FramebufferRegister(s) == IF s = 0 THEN "framebuffer_config[0]" ELSE "framebuffer_config[1]"

\* lines 86-89: the color fill register is read in either branch
ColorFillRead(s) ==
    << Call("LCD::Read", 0, [NoArgs EXCEPT !.data = ColorFillRegister(s)]) >>

\* lines 98-100: the first read through the reference bound at line 83
FramebufferRead(s) ==
    << Call("GPU::g_regs", 0, [NoArgs EXCEPT !.data = FramebufferRegister(s)]) >>

ScreenStep(s) == IF s = 0 THEN "ScreenUpdate(top)" ELSE "ScreenUpdate(bottom)"

\* mutant: the format is left out of the comparison
NeedsReallocSizeOnly(texture, fb) ==
    \/ texture.width # fb.width
    \/ texture.height # fb.height

\* the condition of lines 98-100
NeedsRealloc(texture, fb) ==
    \/ texture.width # fb.width
    \/ texture.height # fb.height
    \/ texture.format # fb.color_format

\* lines 95-96
ColorFillResize(texture) ==
    [texture EXCEPT !.width = COLOR_FILL_SIZE, !.height = COLOR_FILL_SIZE]

\* lines 109-110
FramebufferResize(texture, fb) ==
    [texture EXCEPT !.width = fb.width, !.height = fb.height]

\* ------------------------------------------------ LoadColorToActiveGLTexture
\* mutant: the channels in reverse order
ColorDataReversed(color_r, color_g, color_b) == <<color_b, color_g, color_r>>

\* u8 framebuffer_data[3] = { color_r, color_g, color_b }
ColorData(color_r, color_g, color_b) == <<color_r, color_g, color_b>>

LoadColorCalls(color_r, color_g, color_b, texture) ==
    << Call("LoadColorToActiveGLTexture", texture.handle, NoArgs),
       Call("glBindTexture", texture.handle, NoArgs),
       Call("glTexImage2D", texture.handle,
            [NoArgs EXCEPT !.width = 1, !.height = 1, !.internal = "GL_RGB",
                           !.format = "GL_RGB", !.type = "GL_UNSIGNED_BYTE",
                           !.data = "framebuffer_data",
                           !.pixel = ColorData(color_r, color_g, color_b)]),
       Call("glBindTexture", GL_NO_TEXTURE, NoArgs) >>

LoadColorGL(g, texture) ==
    [g EXCEPT !.bound = GL_NO_TEXTURE,
              !.storage[texture.handle] = [width |-> 1, height |-> 1, internal |-> "GL_RGB"]]

\* ----------------------------------------------- ConfigureFramebufferTexture
\* mutant: texture.format is never stored
ConfiguredTextureKeepsFormat(texture, fb) ==
    LET format == fb.color_format
    IN  [texture EXCEPT
            !.width = fb.width,
            !.height = fb.height,
            !.gl_format = IF IsUnimplemented(format) THEN @ ELSE GLFormat(format),
            !.gl_type = IF IsUnimplemented(format) THEN @ ELSE GLType(format)]

\* lines 234-275: the TextureInfo after the assignments and the switch
ConfiguredTexture(texture, fb) ==
    LET format == fb.color_format
    IN  [texture EXCEPT
            !.format = format,
            !.width = fb.width,
            !.height = fb.height,
            !.gl_format = IF IsUnimplemented(format) THEN @ ELSE GLFormat(format),
            !.gl_type = IF IsUnimplemented(format) THEN @ ELSE GLType(format)]

\* lines 277-279
ConfigureCalls(texture, fb) ==
    << Call("glBindTexture", texture.handle, NoArgs),
       Call("glTexImage2D", texture.handle,
            [NoArgs EXCEPT !.width = texture.width, !.height = texture.height,
                           !.internal = InternalFormat(fb.color_format),
                           !.format = texture.gl_format, !.type = texture.gl_type,
                           !.data = "nullptr"]) >>

ConfigureGL(g, texture, fb) ==
    [g EXCEPT !.bound = texture.handle,
              !.storage[texture.handle] =
                  [width |-> texture.width, height |-> texture.height,
                   internal |-> InternalFormat(fb.color_format)]]

\* --------------------------------------------------- LoadFBToActiveGLTexture
\* mutant: the first candidate address whatever the selector
ActiveAddressFirst(active_fb) == "address_left1"

\* line 137: the candidate address of the active buffer
ActiveAddress(active_fb) == IF active_fb = 0 THEN "address_left1" ELSE "address_left2"

\* mutant: the stride is left in bytes
PixelStrideInBytes(stride, bpp) == stride

\* line 147: size_t pixel_stride = framebuffer.stride / bpp
PixelStride(stride, bpp) == stride \div bpp

\* mutant: the alignment of the pixel stride is not checked
StrideContractNoAlignment(stride, bpp) == (stride \div bpp) * bpp = stride

\* the conditions of the two ASSERTs, lines 150 and 154
StrideContract(stride, bpp) ==
    /\ PixelStride(stride, bpp) * bpp = stride
    /\ PixelStride(stride, bpp) % GL_UNPACK_ALIGNMENT = 0

MemoryCalls(active_fb) ==
    << Call("Memory::PhysicalToVirtualAddress", 0,
            [NoArgs EXCEPT !.data = ActiveAddress(active_fb)]),
       Call("Memory::GetPointer", 0, [NoArgs EXCEPT !.data = ActiveAddress(active_fb)]) >>

\* mutant: the row length is not set back after the upload
UploadCallsNoReset(fb, texture, stride, active_fb) ==
    LET pixel_stride == PixelStride(stride, BytesPerPixel(fb.color_format))
    IN  << Call("glBindTexture", texture.handle, NoArgs),
           Call("glPixelStorei", texture.handle, [NoArgs EXCEPT !.row_length = pixel_stride]),
           Call("glTexSubImage2D", texture.handle,
                [NoArgs EXCEPT !.width = fb.width, !.height = fb.height,
                               !.format = texture.gl_format, !.type = texture.gl_type,
                               !.data = ActiveAddress(active_fb),
                               !.row_length = pixel_stride, !.stride = stride]),
           Call("glBindTexture", GL_NO_TEXTURE, NoArgs) >>

\* lines 156-168
UploadCalls(fb, texture, stride, active_fb) ==
    LET pixel_stride == PixelStride(stride, BytesPerPixel(fb.color_format))
    IN  << Call("glBindTexture", texture.handle, NoArgs),
           Call("glPixelStorei", texture.handle, [NoArgs EXCEPT !.row_length = pixel_stride]),
           Call("glTexSubImage2D", texture.handle,
                [NoArgs EXCEPT !.width = fb.width, !.height = fb.height,
                               !.format = texture.gl_format, !.type = texture.gl_type,
                               !.data = ActiveAddress(active_fb),
                               !.row_length = pixel_stride, !.stride = stride]),
           Call("glPixelStorei", texture.handle,
                [NoArgs EXCEPT !.row_length = GL_DEFAULT_ROW_LENGTH]),
           Call("glBindTexture", GL_NO_TEXTURE, NoArgs) >>

\* what one call of lines 156-168 does to the GL context: glBindTexture sets the
\* bound texture, glPixelStorei(GL_UNPACK_ROW_LENGTH, n) the unpack row length
GLEffect(g, c) ==
    CASE c.call = "glBindTexture" -> [g EXCEPT !.bound = c.target]
      [] c.call = "glPixelStorei" -> [g EXCEPT !.unpack_row_length = c.args.row_length]
      [] OTHER -> g

RECURSIVE GLAfter(_, _)
GLAfter(g, calls) ==
    IF calls = <<>> THEN g ELSE GLAfter(GLEffect(g, Head(calls)), Tail(calls))

\* the GL state LoadFBToActiveGLTexture leaves behind
UploadGL(g, calls) == GLAfter(g, calls)

\* --------------------------------------------------------------- DrawScreens
\* mutant: the frame is counted twice
NextFrameTwice(n) == n + 2

\* line 324: m_current_frame++
NextFrame(n) == n + 1

\* a GLfloat value, kept as the quotient it was computed from: <<numerator,
\* denominator>>
Float(n, d) == <<n, d>>

\* render_window->GetFramebufferLayout(): the width and height of the surface
FramebufferLayouts ==
    {[width |-> k, height |-> k + 1] : k \in 1..MaxSurface}
        \cup {[width |-> 400, height |-> 240]}

NoMatrix == [width |-> 0, height |-> 0, matrix |-> <<>>]

\* mutant: the y axis is not flipped
MakeOrthographicMatrixNoFlip(width, height) ==
    [k \in 0..5 |->
        CASE k = 0 -> Float(2, width)
          [] k = 2 -> Float(0, 1)
          [] k = 4 -> Float(-1, 1)
          [] k = 1 -> Float(0, 1)
          [] k = 3 -> Float(2, height)
          [] k = 5 -> Float(-1, 1)]

\* lines 58-66: matrix[0..5], the columns of a 3x2 matrix one after the other
MakeOrthographicMatrix(width, height) ==
    [k \in 0..5 |->
        CASE k = 0 -> Float(2, width)
          [] k = 2 -> Float(0, 1)
          [] k = 4 -> Float(-1, 1)
          [] k = 1 -> Float(0, 1)
          [] k = 3 -> Float(-2, height)
          [] k = 5 -> Float(1, 1)]

DrawSteps ==
    <<"glClear", "MakeOrthographicMatrix", "DrawSingleScreenRotated(top)",
      "DrawSingleScreenRotated(bottom)">>

\* ------------------------------------------------------------------- state
Init ==
    /\ pc = "Idle"
    /\ i = 0
    /\ framebuffer = Unbound
    /\ \E u0 \in UninitializedFields, u1 \in UninitializedFields :
          textures = [s \in Screens |->
                        TextureInfo(TextureHandle(s), IF s = 0 THEN u0 ELSE u1)]
    /\ gl = [bound |-> GL_NO_TEXTURE, unpack_row_length |-> GL_DEFAULT_ROW_LENGTH,
             storage |-> [h \in {TextureHandle(s) : s \in Screens} |-> NoStorage]]
    /\ m_current_frame = 0
    /\ fatal = "none"
    /\ steps = <<>>
    /\ upd = NoUpdate
    /\ gl_log = NoLog
    /\ last_update = [s \in Screens |-> NoObservation]
    /\ presented = 0
    /\ ortho_matrix = NoMatrix
    /\ writes = 0

\* line 80: render_window->MakeCurrent()
MakeCurrent ==
    /\ pc = "Idle"
    /\ m_current_frame < MaxFrames
    /\ pc' = "ScreenUpdate"
    /\ i' = 0
    /\ steps' = <<"MakeCurrent">>
    /\ upd' = NoUpdate
    /\ gl_log' = NoLog
    /\ UNCHANGED <<framebuffer, textures, gl, m_current_frame, fatal, last_update, presented,
                   ortho_matrix, writes>>

\* lines 83-96: the loop body when color_fill.is_enabled.  This branch never reads
\* the framebuffer registers; the history keeps what they held
ColorFillUpdate ==
    /\ pc = "ScreenUpdate"
    /\ \E fb \in UnreadConfigs, color_r \in ColorValues, color_g \in ColorValues,
          color_b \in ColorValues, n \in ErrorCounts(3) :
          LET texture == textures[i]
          IN  /\ gl' = LoadColorGL(gl, texture)
              /\ textures' = [textures EXCEPT ![i] = ColorFillResize(texture)]
              /\ upd' = [screen |-> i, fill |-> TRUE, observed |-> Observed(fb),
                         differed |-> Dims(texture) # Observed(fb), repeat |-> FALSE,
                         color |-> <<color_r, color_g, color_b>>,
                         calls |-> ColorFillRead(i)
                                   \o LoadColorCalls(color_r, color_g, color_b, texture),
                         complete |-> TRUE]
              /\ gl_log' = LogOf(3, n)
              /\ pc' = AfterGLDebug(n, "LoopEnd")
    /\ last_update' = [last_update EXCEPT ![i] = FillObservation]
    /\ steps' = Append(steps, ScreenStep(i))
    /\ UNCHANGED <<i, ortho_matrix, writes, framebuffer, m_current_frame, fatal, presented>>

\* lines 83-100: the loop body when color fill is off, up to the comparison
BeginUpdate ==
    /\ pc = "ScreenUpdate"
    /\ \E fb \in FramebufferConfigs :
          /\ framebuffer' = fb
          /\ upd' = [screen |-> i, fill |-> FALSE, observed |-> Observed(fb),
                     differed |-> Dims(textures[i]) # Observed(fb),
                     repeat |-> last_update[i] = [fill |-> FALSE, observed |-> Observed(fb)],
                     color |-> <<>>,
                     calls |-> ColorFillRead(i) \o FramebufferRead(i), complete |-> FALSE]
          /\ pc' = IF NeedsRealloc(textures[i], fb) THEN "Configure" ELSE "LoadFB"
    /\ gl_log' = NoLog
    /\ UNCHANGED <<i, ortho_matrix, writes, textures, gl, m_current_frame, fatal, steps,
                   last_update, presented>>

\* line 104 and lines 229-280: ConfigureFramebufferTexture(textures[i], framebuffer)
Configure ==
    /\ pc = "Configure"
    /\ LET texture == ConfiguredTexture(textures[i], framebuffer)
           entered == Append(upd.calls,
                             Call("ConfigureFramebufferTexture", texture.handle, NoArgs))
       IN  /\ textures' = [textures EXCEPT ![i] = texture]
           /\ IF IsUnimplemented(framebuffer.color_format)
              THEN /\ pc' = Fatal
                   /\ fatal' = "UNIMPLEMENTED"
                   /\ upd' = [upd EXCEPT !.calls =
                                 Append(entered, Call("UNIMPLEMENTED", 0, NoArgs))]
                   /\ gl_log' = NoLog
                   /\ UNCHANGED gl
              ELSE \E n \in ErrorCounts(2) :
                   /\ pc' = AfterGLDebug(n, "LoadFB")
                   /\ upd' = [upd EXCEPT !.calls = entered \o ConfigureCalls(texture, framebuffer)]
                   /\ gl' = ConfigureGL(gl, texture, framebuffer)
                   /\ gl_log' = LogOf(2, n)
                   /\ UNCHANGED fatal
    /\ UNCHANGED <<i, ortho_matrix, writes, framebuffer, m_current_frame, steps,
                   last_update, presented>>

\* line 106 and lines 133-169: LoadFBToActiveGLTexture(framebuffer, textures[i])
LoadFB ==
    /\ pc = "LoadFB"
    /\ \E stride \in Strides, active_fb \in {0, 1}, n \in ErrorCounts(5) :
          LET texture == textures[i]
              bpp == BytesPerPixel(framebuffer.color_format)
              entered == Append(upd.calls,
                                Call("LoadFBToActiveGLTexture", texture.handle,
                                     [NoArgs EXCEPT !.stride = stride,
                                                    !.active_fb = active_fb]))
                         \o MemoryCalls(active_fb)
          IN  IF bpp = 0
              THEN /\ n = 0
                   /\ pc' = Fatal
                   /\ fatal' = "UNREACHABLE"
                   /\ upd' = [upd EXCEPT !.calls = entered]
                   /\ gl_log' = NoLog
                   /\ UNCHANGED gl
              ELSE IF ~StrideContract(stride, bpp)
              THEN /\ n = 0
                   /\ pc' = Fatal
                   /\ fatal' = "ASSERT"
                   /\ upd' = [upd EXCEPT !.calls = Append(entered, Call("ASSERT", 0, NoArgs))]
                   /\ gl_log' = NoLog
                   /\ UNCHANGED gl
              ELSE /\ pc' = AfterGLDebug(n, "SetDims")
                   /\ upd' = [upd EXCEPT !.calls =
                                 entered \o UploadCalls(framebuffer, texture, stride, active_fb)]
                   /\ gl' = UploadGL(gl, UploadCalls(framebuffer, texture, stride, active_fb))
                   /\ gl_log' = LogOf(5, n)
                   /\ UNCHANGED fatal
    /\ UNCHANGED <<i, ortho_matrix, writes, framebuffer, textures, m_current_frame,
                   steps, last_update, presented>>

\* lines 109-110, and the end of the loop body
SetDims ==
    /\ pc = "SetDims"
    /\ textures' = [textures EXCEPT ![i] = FramebufferResize(textures[i], framebuffer)]
    /\ upd' = [upd EXCEPT !.complete = TRUE]
    /\ last_update' = [last_update EXCEPT
                          ![i] = [fill |-> FALSE, observed |-> Observed(framebuffer)]]
    /\ steps' = Append(steps, ScreenStep(i))
    /\ pc' = "LoopEnd"
    /\ gl_log' = NoLog
    /\ UNCHANGED <<i, ortho_matrix, writes, framebuffer, gl, m_current_frame, fatal,
                   presented>>

\* line 82 and line 112: the loop body ends and the loop goes on to the next
\* screen, or to DrawScreens after the second
NextScreen ==
    /\ pc = "LoopEnd"
    /\ pc' = LoopNext(i).pc
    /\ i' = LoopNext(i).i
    /\ framebuffer' = Unbound
    /\ upd' = NoUpdate
    /\ gl_log' = NoLog
    /\ UNCHANGED <<textures, gl, m_current_frame, fatal, steps, last_update, presented,
                   ortho_matrix, writes>>

\* line 114 and lines 302-325: DrawScreens()
DrawScreens ==
    /\ pc = "DrawScreens"
    /\ \E n \in ErrorCounts(14) :
          /\ pc' = AfterGLDebug(n, "FinishFrame")
          /\ gl_log' = LogOf(14, n)
    /\ \E layout \in FramebufferLayouts :
          ortho_matrix' = [width |-> layout.width, height |-> layout.height,
                           matrix |-> MakeOrthographicMatrix(layout.width, layout.height)]
    /\ gl' = [gl EXCEPT !.bound = textures[1].handle]
    /\ m_current_frame' = NextFrame(m_current_frame)
    /\ steps' = steps \o DrawSteps
    /\ UNCHANGED <<i, framebuffer, textures, fatal, upd, last_update, presented, writes>>

\* mutant: the next frame's sample is opened as soon as the last one is closed
FinishFrameOpensNext ==
    /\ pc = "FinishFrame"
    /\ pc' = "PollEvents"
    /\ steps' = steps \o <<"FinishFrame", "BeginFrame">>
    /\ gl_log' = NoLog
    /\ ortho_matrix' = NoMatrix
    /\ UNCHANGED <<i, framebuffer, textures, gl, m_current_frame, fatal, upd,
                   last_update, presented, writes>>

\* lines 116-121: profiler.FinishFrame() and aggregator->AddFrame(...)
FinishFrame ==
    /\ pc = "FinishFrame"
    /\ pc' = "PollEvents"
    /\ steps' = Append(steps, "FinishFrame")
    /\ gl_log' = NoLog
    /\ ortho_matrix' = NoMatrix
    /\ UNCHANGED <<i, framebuffer, textures, gl, m_current_frame, fatal, upd,
                   last_update, presented, writes>>

\* line 124: render_window->PollEvents()
PollEvents ==
    /\ pc = "PollEvents"
    /\ pc' = "SwapBuffers"
    /\ steps' = Append(steps, "PollEvents")
    /\ UNCHANGED <<i, ortho_matrix, writes, framebuffer, textures, gl, m_current_frame,
                   fatal, upd, gl_log, last_update, presented>>

\* line 125: render_window->SwapBuffers()
WindowSwapBuffers ==
    /\ pc = "SwapBuffers"
    /\ pc' = "BeginFrame"
    /\ steps' = Append(steps, "SwapBuffers")
    /\ UNCHANGED <<i, ortho_matrix, writes, framebuffer, textures, gl, m_current_frame,
                   fatal, upd, gl_log, last_update, presented>>

\* line 127: profiler.BeginFrame(), and the return of SwapBuffers
BeginFrame ==
    /\ pc = "BeginFrame"
    /\ pc' = "Idle"
    /\ steps' = Append(steps, "BeginFrame")
    /\ presented' = presented + 1
    /\ UNCHANGED <<i, ortho_matrix, writes, framebuffer, textures, gl, m_current_frame,
                   fatal, upd, gl_log, last_update>>

Next ==
    \/ MakeCurrent
    \/ ColorFillUpdate
    \/ BeginUpdate
    \/ Configure
    \/ LoadFB
    \/ SetDims
    \/ NextScreen
    \/ DrawScreens
    \/ FinishFrame
    \/ PollEvents
    \/ WindowSwapBuffers
    \/ BeginFrame

Spec == Init /\ [][Next]_vars

\* ------------------------------------------------------ the emulation core
\* The emulation core runs in a thread of its own and writes the registers
\* without synchronisation.  `framebuffer` is a reference to the live register
\* block (line 83): a write between two steps of the update is seen by the
\* steps after it.  One write stores one register: the size or the format.
RegisterWrite ==
    /\ pc \in {"Configure", "LoadFB", "SetDims"}
    /\ writes < MaxWrites
    /\ writes' = writes + 1
    /\ \E fb \in FramebufferConfigs :
          /\ fb # framebuffer
          /\ \/ fb.color_format = framebuffer.color_format
             \/ fb.width = framebuffer.width /\ fb.height = framebuffer.height
          /\ framebuffer' = fb
    /\ UNCHANGED <<pc, i, textures, gl, m_current_frame, fatal, steps, upd, gl_log,
                   last_update, presented, ortho_matrix>>

RaceNext ==
    \/ Next
    \/ RegisterWrite

\* the state after construction when the renderer was allocated in zeroed
\* memory, with the frame counter such that RaceFrames calls are followed
RaceInit ==
    /\ pc = "Idle"
    /\ i = 0
    /\ framebuffer = Unbound
    /\ \E u \in UninitializedFields :
          /\ u.width = 0
          /\ textures = [s \in Screens |-> TextureInfo(TextureHandle(s), u)]
    /\ gl = [bound |-> GL_NO_TEXTURE, unpack_row_length |-> GL_DEFAULT_ROW_LENGTH,
             storage |-> [h \in {TextureHandle(s) : s \in Screens} |-> NoStorage]]
    /\ m_current_frame = MaxFrames - RaceFrames
    /\ fatal = "none"
    /\ steps = <<>>
    /\ upd = NoUpdate
    /\ gl_log = NoLog
    /\ last_update = [s \in Screens |-> NoObservation]
    /\ presented = 0
    /\ ortho_matrix = NoMatrix
    /\ writes = 0

RaceSpec == RaceInit /\ [][RaceNext]_vars

\* the steps of SwapBuffers that run once the call was entered
InFrame ==
    \/ ColorFillUpdate
    \/ BeginUpdate
    \/ Configure
    \/ LoadFB
    \/ SetDims
    \/ NextScreen
    \/ DrawScreens
    \/ FinishFrame
    \/ PollEvents
    \/ WindowSwapBuffers
    \/ BeginFrame

\* ================================================================== claims
GLCallNames == {"glBindTexture", "glPixelStorei", "glTexImage2D", "glTexSubImage2D"}

PixelBufferCallNames ==
    {"ConfigureFramebufferTexture", "LoadFBToActiveGLTexture",
     "Memory::PhysicalToVirtualAddress", "Memory::GetPointer", "ASSERT", "UNIMPLEMENTED",
     "glPixelStorei", "glTexSubImage2D"}

ConfigureCount == Len(CallsNamed(upd.calls, "ConfigureFramebufferTexture"))

UploadCount == Len(CallsNamed(upd.calls, "glTexSubImage2D"))

\* the stride condition, written from the claim: a whole number of pixels, and
\* that number a multiple of 4
WholeAlignedStride(s, b) == s % b = 0 /\ (s \div b) % 4 = 0

\* C1: after an update with color fill off the stored (width, height, format) of
\* the screen's TextureInfo equals the observed FramebufferConfig's, and
\* ConfigureFramebufferTexture is invoked in an update exactly when the stored
\* (width, height, format) differed from the observed one.
C1_TextureMatchesObserved ==
    /\ \A s \in Screens :
          (/\ last_update[s] # NoObservation
           /\ ~last_update[s].fill
           /\ ~(upd.screen = s /\ ~upd.complete))
          => Dims(textures[s]) = last_update[s].observed
    /\ upd.screen \in Screens =>
          /\ pc = "Configure" => upd.differed /\ ~upd.fill
          /\ pc # "Configure" =>
                ConfigureCount = (IF upd.differed /\ ~upd.fill THEN 1 ELSE 0)

C1_Witness ==
    /\ upd.screen \in Screens
    /\ pc = "LoopEnd"
    /\ ~upd.fill
    /\ upd.differed
    /\ ConfigureCount = 1
    /\ Dims(textures[upd.screen]) = upd.observed
    /\ presented >= 1

\* C2: an update with color fill off whose (width, height, format) is the one the
\* update before it observed, color fill off as well, allocates nothing; no
\* update allocates more than once.
C2_RepeatAllocatesNothing ==
    /\ Len(Allocations(upd.calls)) <= 1
    /\ upd.repeat =>
          /\ pc # "Configure"
          /\ ConfigureCount = 0
          /\ Len(Allocations(upd.calls)) = 0

C2_Witness ==
    /\ upd.repeat
    /\ pc = "LoopEnd"
    /\ UploadCount = 1
    /\ Len(Allocations(upd.calls)) = 0

\* C3: on the first frame after init, an update with color fill off and a
\* supported format allocates the texture storage exactly once, before the first
\* pixel upload, whatever values init left in the TextureInfo.
C3_FirstFrameAllocatesOnce ==
    (/\ presented = 0
     /\ upd.screen \in Screens
     /\ ~upd.fill
     /\ pc \in {"SetDims", "LoopEnd"})
    => /\ Len(Allocations(upd.calls)) = 1
       /\ Position(upd.calls, "glTexImage2D") < Position(upd.calls, "glTexSubImage2D")

\* C4: an update with color fill on leaves the TextureInfo at 1x1 whatever the
\* framebuffer registers hold, uploads one pixel equal to the configured
\* (color_r, color_g, color_b), and makes no call of the pixel-buffer path.
C4_ColorFillOverride ==
    (upd.screen \in Screens /\ upd.fill) =>
       /\ pc = "LoopEnd"
       /\ fatal = "none"
       /\ textures[upd.screen].width = 1
       /\ textures[upd.screen].height = 1
       /\ Len(CallsNamed(upd.calls, "glTexImage2D")) = 1
       /\ \A k \in 1..Len(upd.calls) :
             /\ upd.calls[k].call \notin PixelBufferCallNames
             /\ upd.calls[k].call = "glTexImage2D" =>
                   /\ upd.calls[k].args.pixel = upd.color
                   /\ upd.calls[k].args.width = 1
                   /\ upd.calls[k].args.height = 1

C4_Witness ==
    /\ upd.screen \in Screens
    /\ upd.fill
    /\ upd.observed[1] > 1
    /\ upd.observed[2] > 1
    /\ upd.color = <<255, 0, 255>>
    /\ textures[upd.screen].width = 1
    /\ presented >= 1

\* C5: the frame counter is its initial value plus the number of SwapBuffers
\* calls that returned, plus one while a call is past DrawScreens.
C5_FrameCounter ==
    m_current_frame =
        presented + (IF pc \in {"FinishFrame", "PollEvents", "SwapBuffers", "BeginFrame"}
                     THEN 1 ELSE 0)

C5_Witness == pc = "Idle" /\ presented >= 2 /\ m_current_frame = presented

\* the order of the steps in SwapBuffers and DrawScreens
CodeOrder ==
    <<"MakeCurrent", "ScreenUpdate(top)", "ScreenUpdate(bottom)", "glClear",
      "MakeOrthographicMatrix", "DrawSingleScreenRotated(top)",
      "DrawSingleScreenRotated(bottom)", "FinishFrame", "PollEvents", "SwapBuffers",
      "BeginFrame">>

\* the order the claim gives: ProfileRecord (close the sample, open the next one)
\* as a whole before Present
ClaimedOrder(present) ==
    <<"MakeCurrent", "ScreenUpdate(top)", "ScreenUpdate(bottom)", "glClear",
      "MakeOrthographicMatrix", "DrawSingleScreenRotated(top)",
      "DrawSingleScreenRotated(bottom)", "FinishFrame", "BeginFrame">> \o present

\* C6 (as amended): every SwapBuffers call runs MakeCurrent, the update of the
\* top screen, the update of the bottom screen, clear, projection, draw top,
\* draw bottom, FinishFrame, PollEvents, SwapBuffers of the window, BeginFrame,
\* in this order and once each.
C6_StepsInCodeOrder ==
    /\ IsPrefix(steps, CodeOrder)
    /\ pc = "Idle" /\ presented > 0 => steps = CodeOrder
    /\ pc = "DrawScreens" => Len(steps) = 3
    /\ pc = "FinishFrame" => Len(steps) = 7

C6_Witness == pc = "Idle" /\ steps = CodeOrder

\* C6 (as claimed): the steps run in the order FrameBegin, ScreenUpdate(top),
\* ScreenUpdate(bottom), Composite, ProfileRecord, Present, with Present in
\* either inner order.
C6_StepsInClaimedOrder ==
    \/ IsPrefix(steps, ClaimedOrder(<<"SwapBuffers", "PollEvents">>))
    \/ IsPrefix(steps, ClaimedOrder(<<"PollEvents", "SwapBuffers">>))

\* C7: every GL error a step raises is logged in that step, and a step that
\* raised one goes on to the step that follows it: the process stops only on a
\* fatal path, never in a step with a GL error, and until SwapBuffers returns
\* there is always a next step to run.
C7_BackendErrorsNonFatal ==
    /\ gl_log.logged = gl_log.raised
    /\ gl_log.raised > 0 =>
          /\ fatal = "none"
          /\ pc \in {"LoopEnd", "LoadFB", "SetDims", "FinishFrame"}
    /\ pc = Fatal => fatal # "none"
    /\ pc \notin {"Idle", Fatal} => ENABLED InFrame

C7_Witness ==
    /\ gl_log.raised > 0
    /\ gl_log.logged > 0
    /\ pc = "FinishFrame"

\* C8: when ConfigureFramebufferTexture is given an unlisted format the fatal
\* path is taken once, no allocation and no upload is issued, and the stored
\* TextureInfo does not record the unlisted format.
C8_UnsupportedFormatFatal ==
    fatal = "UNIMPLEMENTED" =>
       /\ Len(CallsNamed(upd.calls, "UNIMPLEMENTED")) = 1
       /\ Len(Allocations(upd.calls)) = 0
       /\ UploadCount = 0
       /\ textures[upd.screen].format \notin UnsupportedFormats

\* C9: LoadFBToActiveGLTexture uploads exactly when the byte stride is a whole
\* number of pixels and that number is a multiple of 4; otherwise the check stops
\* it before any GL call.  With 4 bytes per pixel 1600 passes and 1602 does not.
C9_StrideContractCheck ==
    /\ StrideContract(1600, 4)
    /\ ~StrideContract(1602, 4)
    /\ \A k \in 1..Len(upd.calls) :
          upd.calls[k].call = "LoadFBToActiveGLTexture" /\ fatal # "UNREACHABLE" =>
             LET s == upd.calls[k].args.stride
                 b == BytesPerPixel(upd.observed[3])
                 later == (k + 1)..Len(upd.calls)
             IN  /\ WholeAlignedStride(s, b) <=>
                       \E j \in later : upd.calls[j].call = "glTexSubImage2D"
                 /\ ~WholeAlignedStride(s, b) =>
                       /\ fatal = "ASSERT"
                       /\ pc = Fatal
                       /\ \A j \in later : upd.calls[j].call \notin GLCallNames

C9_Witness ==
    /\ fatal = "ASSERT"
    /\ upd.observed[3] = "RGBA8"
    /\ \E k \in 1..Len(upd.calls) :
          /\ upd.calls[k].call = "LoadFBToActiveGLTexture"
          /\ upd.calls[k].args.stride = 1602
    /\ UploadCount = 0

\* C10 (as claimed): only a framebuffer whose byte stride is exactly
\* width * bytes_per_pixel(format) reaches the backend upload.
C10_NoRowPadding ==
    \A k \in 1..Len(upd.calls) :
       upd.calls[k].call = "glTexSubImage2D" =>
          upd.calls[k].args.stride =
             upd.calls[k].args.width * BytesPerPixel(upd.observed[3])

\* C10 (as amended): row padding is honoured.  The check stops only a stride that
\* is no whole number of pixels or whose pixel count is no multiple of 4; every
\* other stride reaches the upload, which passes stride / bytes_per_pixel as the
\* row length, whether or not that equals the width.
C10_RowPaddingHonoured ==
    /\ fatal = "ASSERT" =>
          \A k \in 1..Len(upd.calls) :
             upd.calls[k].call = "LoadFBToActiveGLTexture" =>
                ~WholeAlignedStride(upd.calls[k].args.stride,
                                    BytesPerPixel(upd.observed[3]))
    /\ \A k \in 1..Len(upd.calls) :
          upd.calls[k].call = "glTexSubImage2D" =>
             /\ upd.calls[k].args.row_length * BytesPerPixel(upd.observed[3])
                   = upd.calls[k].args.stride
             /\ k > 1
             /\ upd.calls[k - 1].call = "glPixelStorei"
             /\ upd.calls[k - 1].args.row_length = upd.calls[k].args.row_length

C10_Witness ==
    /\ pc = "LoopEnd"
    /\ \E k \in 1..Len(upd.calls) :
          /\ upd.calls[k].call = "glTexSubImage2D"
          /\ upd.calls[k].args.width = 1
          /\ upd.calls[k].args.stride = 16
          /\ upd.calls[k].args.row_length = 4
    /\ upd.observed[3] = "RGBA8"

\* ---------------------------------------------------------------- C11
\* what the GL names of a transfer descriptor stand for
Channels(gl_format) ==
    CASE gl_format = "GL_RGBA" -> 4
      [] gl_format \in {"GL_RGB", "GL_BGR"} -> 3
      [] OTHER -> 0

Reversed(gl_format) == gl_format = "GL_BGR"

Components(gl_type) ==
    CASE gl_type = "GL_UNSIGNED_INT_8_8_8_8" -> "packed 8-8-8-8"
      [] gl_type = "GL_UNSIGNED_BYTE" -> "bytes"
      [] gl_type = "GL_UNSIGNED_SHORT_5_6_5" -> "packed 5-6-5"
      [] gl_type = "GL_UNSIGNED_SHORT_5_5_5_1" -> "packed 5-5-5-1"
      [] gl_type = "GL_UNSIGNED_SHORT_4_4_4_4" -> "packed 4-4-4-4"
      [] OTHER -> "indeterminate"

\* the transfer descriptor the switch yields for a format
Descriptor(format) ==
    [channels |-> Channels(GLFormat(format)), components |-> Components(GLType(format)),
     reversed |-> Reversed(GLFormat(format))]

\* the documented table, written from the claim
DocumentedRow(format) ==
    CASE format = "RGBA8" ->
            [channels |-> 4, components |-> "packed 8-8-8-8", reversed |-> FALSE]
      [] format = "RGB8" -> [channels |-> 3, components |-> "bytes", reversed |-> TRUE]
      [] format = "RGB565" ->
            [channels |-> 3, components |-> "packed 5-6-5", reversed |-> FALSE]
      [] format = "RGB5A1" ->
            [channels |-> 4, components |-> "packed 5-5-5-1", reversed |-> FALSE]
      [] format = "RGBA4" ->
            [channels |-> 4, components |-> "packed 4-4-4-4", reversed |-> FALSE]

\* C11: the switch yields the documented transfer descriptor for each of the five
\* supported formats, and the format and descriptors of a stored TextureInfo are
\* one row of that table: every upload transfers with the descriptors of the
\* format the TextureInfo records.
C11_DescriptorTable ==
    /\ \A format \in SupportedFormats : Descriptor(format) = DocumentedRow(format)
    /\ \A k \in 1..Len(upd.calls) :
          upd.calls[k].call = "glTexSubImage2D" =>
             LET texture == textures[upd.screen]
             IN  /\ texture.format \in SupportedFormats
                 /\ upd.calls[k].args.format = GLFormat(texture.format)
                 /\ upd.calls[k].args.type = GLType(texture.format)
                 /\ texture.gl_format = GLFormat(texture.format)
                 /\ texture.gl_type = GLType(texture.format)

\* ---------------------------------------------------------------- C12
\* equality, sum and integer multiple of quotients
SameValue(a, b) == a[1] * b[2] = b[1] * a[2]

Sum(a, b) == <<a[1] * b[2] + b[1] * a[2], a[2] * b[2]>>

Times(a, x) == <<a[1] * x, a[2]>>

\* the coefficients (a, b, c; d, e, f) of the rows of a matrix stored by columns
RowMajor(matrix) == <<matrix[0], matrix[2], matrix[4], matrix[1], matrix[3], matrix[5]>>

\* the image of the point (x, y) under the affine map with rows (a, b, c; d, e, f)
Image(rows, x, y) ==
    << Sum(Sum(Times(rows[1], x), Times(rows[2], y)), rows[3]),
       Sum(Sum(Times(rows[4], x), Times(rows[5], y)), rows[6]) >>

\* C12: for a surface of width W and height H, both positive, the matrix
\* MakeOrthographicMatrix yields has the rows (2/W, 0, -1; 0, -2/H, 1): it maps
\* (0, 0) to (-1, +1) and (W, H) to (+1, -1), and for W = 400, H = 240 its
\* coefficients are (2/400, 0, -1, 0, -2/240, 1).
C12_ProjectionMatrix ==
    ortho_matrix # NoMatrix =>
       LET W == ortho_matrix.width
           H == ortho_matrix.height
           rows == RowMajor(ortho_matrix.matrix)
       IN  /\ W > 0 /\ H > 0
           /\ SameValue(rows[1], <<2, W>>)
           /\ SameValue(rows[2], <<0, 1>>)
           /\ SameValue(rows[3], <<-1, 1>>)
           /\ SameValue(rows[4], <<0, 1>>)
           /\ SameValue(rows[5], <<-2, H>>)
           /\ SameValue(rows[6], <<1, 1>>)
           /\ SameValue(Image(rows, 0, 0)[1], <<-1, 1>>)
           /\ SameValue(Image(rows, 0, 0)[2], <<1, 1>>)
           /\ SameValue(Image(rows, W, H)[1], <<1, 1>>)
           /\ SameValue(Image(rows, W, H)[2], <<-1, 1>>)
           /\ \A x \in 0..MaxSurface, y \in 0..MaxSurface :
                 /\ SameValue(Image(rows, x, y)[1], <<2 * x - W, W>>)
                 /\ SameValue(Image(rows, x, y)[2], <<H - 2 * y, H>>)
           /\ (W = 400 /\ H = 240) =>
                 /\ SameValue(rows[1], <<1, 200>>)
                 /\ SameValue(rows[5], <<-1, 120>>)

C12_Witness ==
    /\ pc = "FinishFrame"
    /\ ortho_matrix.width = 400
    /\ ortho_matrix.height = 240
    /\ RowMajor(ortho_matrix.matrix) = <<<<2, 400>>, <<0, 1>>, <<-1, 1>>,
                                         <<0, 1>>, <<-2, 240>>, <<1, 1>>>>

\* ---------------------------------------------------------------- C13
\* C13: LoadFBToActiveGLTexture sets the unpack row length to the pixel stride
\* for its own upload only and sets it back to the default before it returns:
\* between the operations of SwapBuffers, so during a color fill, during a
\* reallocation and when SwapBuffers returns, the row length is the default.
C13_NoLeakedRowLength ==
    /\ gl.unpack_row_length = GL_DEFAULT_ROW_LENGTH
    /\ upd.fill => CallsNamed(upd.calls, "glPixelStorei") = <<>>
    /\ \A k \in 1..Len(upd.calls) :
          /\ (/\ upd.calls[k].call = "glPixelStorei"
              /\ upd.calls[k].args.row_length # GL_DEFAULT_ROW_LENGTH)
             => /\ k + 2 <= Len(upd.calls)
                /\ upd.calls[k + 1].call = "glTexSubImage2D"
                /\ upd.calls[k + 2].call = "glPixelStorei"
                /\ upd.calls[k + 2].args.row_length = GL_DEFAULT_ROW_LENGTH
          /\ upd.calls[k].call = "glTexSubImage2D" =>
                /\ upd.calls[k - 1].call = "glPixelStorei"
                /\ upd.calls[k - 1].args.row_length
                      = upd.calls[k].args.stride \div BytesPerPixel(upd.observed[3])
          /\ upd.calls[k].call = "glTexImage2D" =>
                \A j \in 1..(k - 1) : upd.calls[j].call # "glPixelStorei"

C13_Witness ==
    /\ pc = "SetDims"
    /\ gl.unpack_row_length = GL_DEFAULT_ROW_LENGTH
    /\ Len(Allocations(upd.calls)) = 1
    /\ \E k \in 1..Len(upd.calls) :
          /\ upd.calls[k].call = "glPixelStorei"
          /\ upd.calls[k].args.row_length = 4
          /\ upd.calls[k + 1].call = "glTexSubImage2D"

\* ---------------------------------------------------------------- C14
\* C14: ConfigureFramebufferTexture, LoadFBToActiveGLTexture and
\* LoadColorToActiveGLTexture each bind the texture they work on and unbind it
\* before they return: when one of them has returned no texture is bound.
C14_BindUnbindBracketing ==
    /\ (pc = "LoadFB" /\ ConfigureCount = 1) => gl.bound = GL_NO_TEXTURE
    /\ (pc \in {"SetDims", "LoopEnd"} /\ upd.screen \in Screens) =>
          /\ gl.bound = GL_NO_TEXTURE
          /\ \E k \in 1..Len(upd.calls) :
                /\ upd.calls[k].call = "glBindTexture"
                /\ upd.calls[k].target = textures[upd.screen].handle
          /\ upd.calls[Len(upd.calls)] = Call("glBindTexture", GL_NO_TEXTURE, NoArgs)

\* ---------------------------------------------------------------- C15
MemoryCallNames == {"Memory::PhysicalToVirtualAddress", "Memory::GetPointer"}

\* the candidate address the claim names for a selector, and the other one
ClaimedAddress(selector) == IF selector = 0 THEN "address_left1" ELSE "address_left2"

InactiveAddress(selector) == IF selector = 0 THEN "address_left2" ELSE "address_left1"

\* C15: in an update with color fill off the reallocation decision, and the
\* reallocation when there is one, precede the upload; the pixels uploaded are
\* those at the first candidate address when active_fb is 0 and at the second
\* otherwise, resolved through the memory collaborator, and the address of the
\* inactive buffer is not used.
C15_ActiveBufferOnly ==
    \A k \in 1..Len(upd.calls) :
       upd.calls[k].call = "LoadFBToActiveGLTexture" =>
          LET selector == upd.calls[k].args.active_fb
              later == (k + 1)..Len(upd.calls)
          IN  /\ ~upd.fill
              /\ ConfigureCount = (IF upd.differed THEN 1 ELSE 0)
              /\ \A j \in later : upd.calls[j].call # "ConfigureFramebufferTexture"
              /\ \A j \in later : upd.calls[j].call # "glTexImage2D"
              /\ k + 2 <= Len(upd.calls)
              /\ upd.calls[k + 1].call = "Memory::PhysicalToVirtualAddress"
              /\ upd.calls[k + 2].call = "Memory::GetPointer"
              /\ \A j \in 1..Len(upd.calls) :
                    /\ upd.calls[j].args.data # InactiveAddress(selector)
                    /\ upd.calls[j].call \in MemoryCallNames \cup {"glTexSubImage2D"} =>
                          /\ j > k
                          /\ upd.calls[j].args.data = ClaimedAddress(selector)

C15_Witness ==
    /\ pc = "LoopEnd"
    /\ ConfigureCount = 1
    /\ \E k \in 1..Len(upd.calls) :
          /\ upd.calls[k].call = "LoadFBToActiveGLTexture"
          /\ upd.calls[k].args.active_fb = 1
    /\ \E k \in 1..Len(upd.calls) :
          /\ upd.calls[k].call = "glTexSubImage2D"
          /\ upd.calls[k].args.data = "address_left2"

\* ---------------------------------------------------------------- C16
\* how often the step c was taken in the current SwapBuffers call
StepCount(c) == Len(SelectSeq(steps, LAMBDA x : x = c))

Taken(c) == StepCount(c) > 0

\* the place of the first step c in the current SwapBuffers call, 0 when not taken
StepIndex(c) ==
    IF Taken(c)
    THEN CHOOSE k \in 1..Len(steps) : steps[k] = c /\ \A j \in 1..(k - 1) : steps[j] # c
    ELSE 0

\* C16 (as claimed): the sample of the frame is closed, the sample of the next
\* frame is opened and the frame counter is incremented all within
\* ProfileRecord: after Composite and before Present.
C16_ProfileRecordBeforePresent ==
    /\ pc = "FinishFrame" => m_current_frame = presented
    /\ (Taken("PollEvents") \/ Taken("SwapBuffers")) =>
          /\ Taken("FinishFrame")
          /\ Taken("BeginFrame")
          /\ m_current_frame = presented + 1
    /\ StepCount("FinishFrame") <= 1
    /\ StepCount("BeginFrame") <= StepCount("FinishFrame")

\* C16 (as amended): the frame counter is incremented at the end of Composite,
\* inside DrawScreens; the sample of the frame is closed after Composite and
\* before Present; the sample of the next frame is opened after Present, as the
\* last step of the call.  A call closes one sample and then opens one.
C16_ProfileAroundPresent ==
    /\ m_current_frame =
          presented + (IF Taken("DrawSingleScreenRotated(bottom)") /\ ~Taken("BeginFrame")
                       THEN 1 ELSE 0)
    /\ Taken("FinishFrame") =>
          /\ Taken("DrawSingleScreenRotated(bottom)")
          /\ StepIndex("DrawSingleScreenRotated(bottom)") < StepIndex("FinishFrame")
    /\ \A present \in {"PollEvents", "SwapBuffers"} :
          Taken(present) =>
             /\ Taken("FinishFrame")
             /\ StepIndex("FinishFrame") < StepIndex(present)
             /\ Taken("BeginFrame") => StepIndex(present) < StepIndex("BeginFrame")
    /\ Taken("BeginFrame") =>
          /\ Taken("PollEvents")
          /\ Taken("SwapBuffers")
          /\ steps[Len(steps)] = "BeginFrame"
          /\ pc = "Idle"
    /\ StepCount("FinishFrame") <= 1
    /\ StepCount("BeginFrame") <= StepCount("FinishFrame")
    /\ (pc = "Idle" /\ presented > 0) =>
          StepCount("FinishFrame") = 1 /\ StepCount("BeginFrame") = 1

C16_Witness ==
    /\ pc = "Idle"
    /\ presented = 2
    /\ m_current_frame = 2
    /\ StepIndex("FinishFrame") < StepIndex("SwapBuffers")
    /\ StepIndex("SwapBuffers") < StepIndex("BeginFrame")

\* ---------------------------------------------------------------- C18
\* C18: whenever LoadFBToActiveGLTexture issues its glTexSubImage2D the storage
\* of the texture, as the last glTexImage2D on it defined it, has the width and
\* height of the upload and the internal format of the TextureInfo's format; an
\* update with color fill off that follows a color fill on the same screen
\* reallocates before it uploads, also when the framebuffer is 1x1.
C18_UploadMatchesStorage ==
    /\ \A k \in 1..Len(upd.calls) :
          upd.calls[k].call = "glTexSubImage2D" =>
             LET texture == textures[upd.screen]
                 storage == gl.storage[texture.handle]
             IN  storage # NoStorage =>
                    /\ storage.width = upd.calls[k].args.width
                    /\ storage.height = upd.calls[k].args.height
                    /\ storage.internal = InternalFormat(texture.format)
    /\ (pc = "LoadFB" /\ last_update[i] = FillObservation) => ConfigureCount = 1

\* ---------------------------------------------------------------- C19
OtherScreen(s) == 1 - s

UpdatePositions == {"ScreenUpdate", "Configure", "LoadFB", "SetDims"}

RegisterReadNames == {"LCD::Read", "GPU::g_regs"}

\* the two texture names are those init generated, and differ; an update reads
\* the registers of its own screen and calls the backend on its own texture
OwnScreenOnly ==
    /\ \A s \in Screens : textures[s].handle = TextureHandle(s)
    /\ textures[0].handle # textures[1].handle
    /\ pc \in UpdatePositions \ {"ScreenUpdate"} => upd.screen = i
    /\ upd.screen \in Screens =>
          \A k \in 1..Len(upd.calls) :
             /\ upd.calls[k].call \in GLCallNames =>
                   upd.calls[k].target \in {GL_NO_TEXTURE, textures[upd.screen].handle}
             /\ upd.calls[k].call \in RegisterReadNames =>
                   upd.calls[k].args.data
                      \in {ColorFillRegister(upd.screen), FramebufferRegister(upd.screen)}

\* a step of the update of screen i leaves the TextureInfo and the storage of
\* the other screen as they were
OtherScreenUnchanged ==
    pc \in UpdatePositions =>
       /\ textures'[OtherScreen(i)] = textures[OtherScreen(i)]
       /\ gl'.storage[textures[OtherScreen(i)].handle]
             = gl.storage[textures[OtherScreen(i)].handle]

\* C19: the update of screen i reads the color fill and framebuffer registers of
\* screen i only and changes textures[i] only: the TextureInfo and the storage
\* of the other screen are unchanged by it, each texture name stays the one
\* init generated and the two names are distinct, so no reallocation or upload
\* of one screen's update reaches the other screen's texture.
C19_ScreensIndependent ==
    /\ []OwnScreenOnly
    /\ [][OtherScreenUnchanged]_vars
    /\ [][\A s \in Screens : textures'[s].handle = textures[s].handle]_vars

C19_Witness ==
    /\ pc = "LoopEnd"
    /\ upd.screen = 1
    /\ Len(Allocations(upd.calls)) = 1
    /\ UploadCount = 1
    /\ gl.storage[textures[0].handle] = [width |-> MaxWidth, height |-> 1, internal |-> "GL_RGB"]
    /\ gl.storage[textures[1].handle] = [width |-> 1, height |-> 1, internal |-> "GL_RGBA"]
    /\ Dims(textures[0]) = <<MaxWidth, 1, "RGB565">>

\* ---------------------------------------------------------------- C17
\* C17: when the emulation core changes the registers of a screen while that
\* screen is being updated, every glTexSubImage2D of an update that reallocated
\* still has the width and height of the allocation the update made, and the
\* TextureInfo the update leaves describes that allocation.
C17_WriterTolerated ==
    (upd.screen \in Screens /\ ~upd.fill /\ ConfigureCount = 1) =>
       LET texture == textures[upd.screen]
           storage == gl.storage[texture.handle]
       IN  /\ \A k \in 1..Len(upd.calls) :
                 upd.calls[k].call = "glTexSubImage2D" =>
                    /\ upd.calls[k].args.width = storage.width
                    /\ upd.calls[k].args.height = storage.height
           /\ pc = "LoopEnd" =>
                 /\ texture.width = storage.width
                 /\ texture.height = storage.height
                 /\ InternalFormat(texture.format) = storage.internal

====
